---- MODULE Spec2Model ----
(***************************************************************************)
(* EPUB builder of mangadex_downloader/format/epub.py.                     *)
(*                                                                         *)
(* One conversion job (EPUBFile.convert) constructs an EpubPlugin, calls   *)
(* create_page once per chapter and then write(path).  The fields of the   *)
(* builder, the locals of the create_page call in progress, the archives   *)
(* on disk and the calls made to the progress bar manager are the state.   *)
(* create_page is modelled statement by statement around lines 441-443;    *)
(* write is one step.                                                      *)
(***************************************************************************)
EXTENDS Integers, Sequences, FiniteSets, TLC

\* Bounds of the model.
MaxChapters == 2    \* create_page calls over the whole run
MaxImages == 2      \* images supplied over the whole run
MaxConverts == 2    \* conversion jobs (EPUBFile.convert calls) over the whole run

\* Inputs.  An image path is <<directory, base file name>>.
Titles == {"Ch. 1", "Ch. 2"}
ImagePaths == {<<"ch1", "01.png">>, <<"ch2", "01.png">>, <<"ch1", "02.jpg">>}
Paths == {"a.epub", "b.epub"}
CompressionTypes == {"ZIP_STORED", "ZIP_DEFLATED"}

VARIABLES
    pc,           \* position of the conversion job
    _pos,         \* EpubPlugin._pos
    _pages,       \* EpubPlugin._pages, an insertion-ordered dict: sequence of [key, xhtml, images]
    _manifest,    \* children of <manifest>
    _spine,       \* children of <spine>
    _navigation,  \* children of <navMap>
    title,        \* create_page: argument
    images,       \* create_page: argument
    pos,          \* create_page: loop index of enumerate(images, start=1)
    nav,          \* create_page: the group's navPoint under construction
    xhtml,        \* create_page: page documents built so far
    path,         \* convert: target path
    files,        \* file system: path -> sequence of archive entries
    zip_compression_type,   \* env.zip_compression_type
    pbm,          \* calls received by the progress bar manager, in order
    nconverts,    \* conversion jobs started
    nchapters,    \* create_page calls made
    nimages,      \* images supplied
    writers,      \* write calls of independent builders in flight: writer -> its frame
    sink,         \* the progress bar manager's convert bar: [total, n]
    stacked,      \* pbm.stacked
    cls,          \* the format class in use: "EpubVolume" or "EpubSingle"
    phase,        \* the downloader: "idle" between units, "receiving" inside one
    unit,         \* output units prepared so far
    lists,        \* the list objects on_prepare has created, one per unit
    epub_chapters,  \* self.epub_chapters: which list object the attribute refers to
    submitted,    \* jobs handed to self.worker and not yet started
    running,      \* frames of the convert call the worker is running (at most one)
    converted     \* file_path -> the (chapter, images) pairs a finished job converted

vars == <<pc, _pos, _pages, _manifest, _spine, _navigation, title, images, pos,
          nav, xhtml, path, files, zip_compression_type, pbm,
          nconverts, nchapters, nimages, writers, sink, stacked,
          cls, phase, unit, lists, epub_chapters, submitted, running, converted>>

\* State of the format object and its worker.
jobs == <<cls, phase, unit, lists, epub_chapters, submitted, running, converted>>

\* State of the concurrent write calls.
writes == <<writers, sink, stacked>>

builder == <<_pos, _pages, _manifest, _spine, _navigation>>
locals == <<title, images, pos, nav, xhtml>>
counters == <<nconverts, nchapters, nimages>>

----------------------------------------------------------------------------
\* Pure helpers.

Digits == <<"0", "1", "2", "3", "4", "5", "6", "7", "8", "9">>

\* Decimal formatting of a non-negative integer inside an f-string.
RECURSIVE str(_)
str(n) == IF n < 10 THEN Digits[n + 1] ELSE str(n \div 10) \o Digits[(n % 10) + 1]

\* os.path.basename
basename(image) == image[2]

\* PIL: the format Image.open finds in the file, and Image.MIME
format(image) == IF basename(image) = "02.jpg" THEN "JPEG" ELSE "PNG"
MIME(fmt) == IF fmt = "JPEG" THEN "image/jpeg" ELSE "image/png"

\* All sequences over S of length at most n.
SeqUpTo(S, n) == UNION {[1..k -> S] : k \in 0..n}

RECURSIVE SumLen(_)
SumLen(ps) == IF ps = <<>> THEN 0 ELSE Len(Head(ps).images) + SumLen(Tail(ps))

\* self._pages = {key: value} instead of self._pages[key] = value
DictRebound(d, key, value) == <<[key |-> key] @@ value>>

\* dict[key] = value on an insertion-ordered dict
DictSet(d, key, value) ==
    IF \E k \in 1..Len(d) : d[k].key = key
    THEN [k \in 1..Len(d) |-> IF d[k].key = key THEN [key |-> key] @@ value ELSE d[k]]
    ELSE Append(d, [key |-> key] @@ value)

----------------------------------------------------------------------------
\* Document fragments.

\* _create_nav: navPoint with its label, an optional <content src>, no children yet
_create_nav(_id, text, src) ==
    [id |-> _id, text |-> text,
     content |-> IF src # "" THEN <<src>> ELSE <<>>,
     navPoints |-> <<>>]

\* _create_toc_item with path and pos exchanged in the target
_create_toc_item_swapped(n, p, i) ==
    [n EXCEPT !.navPoints =
        Append(@, _create_nav("TOC_" \o str(p) \o "_" \o str(i),
                              "Page " \o str(i),
                              "xhtml/" \o str(i) \o "_" \o str(p) \o ".xhtml"))]

\* _create_toc_item: nav with the page's navPoint appended
_create_toc_item(n, p, i) ==
    [n EXCEPT !.navPoints =
        Append(@, _create_nav("TOC_" \o str(p) \o "_" \o str(i),
                              "Page " \o str(i),
                              "xhtml/" \o str(p) \o "_" \o str(i) \o ".xhtml"))]

\* xhtml_item numbering the items of a group from 0
xhtml_item_from_zero(p, i) ==
    [id |-> "XHTML_" \o str(p) \o "_" \o str(i - 1),
     href |-> "xhtml/" \o str(p) \o "_" \o str(i - 1) \o ".xhtml",
     mediatype |-> "application/xhtml+xml"]

xhtml_item(p, i) ==
    [id |-> "XHTML_" \o str(p) \o "_" \o str(i),
     href |-> "xhtml/" \o str(p) \o "_" \o str(i) \o ".xhtml",
     mediatype |-> "application/xhtml+xml"]

\* img_item with the id built from the file name, as the href is
img_item_named(p, i, image) ==
    [id |-> "IMAGES_" \o str(p) \o "_" \o basename(image),
     href |-> "images/" \o str(p) \o "_" \o basename(image),
     mediatype |-> MIME(format(image))]

img_item(p, i, image) ==
    [id |-> "IMAGES_" \o str(p) \o "_" \o str(i),
     href |-> "images/" \o str(p) \o "_" \o basename(image),
     mediatype |-> MIME(format(image))]

\* _create_manifest_item that forgets to append xhtml_item
_create_manifest_item_img_only(m, p, i, image) ==
    Append(m, img_item(p, i, image))

\* _create_manifest_item once Image.open has succeeded
_create_manifest_item(m, p, i, image) ==
    Append(Append(m, xhtml_item(p, i)), img_item(p, i, image))

\* _create_spine_item inserting at the front of <spine>
_create_spine_item_front(s, p, i) ==
    <<[idref |-> "XHTML_" \o str(p) \o "_" \o str(i)]>> \o s

\* _create_spine_item
_create_spine_item(s, p, i) ==
    Append(s, [idref |-> "XHTML_" \o str(p) \o "_" \o str(i)])

\* root with the image source lacking the group prefix
root_without_group(t, p, im) ==
    [title |-> t, alt |-> basename(im),
     src |-> "../images/" \o basename(im)]

\* The page document create_page builds for one image.
root(t, p, im) ==
    [title |-> t, alt |-> basename(im),
     src |-> "../images/" \o str(p) \o "_" \o basename(im)]

\* <manifest> as _make_opf leaves it
ncx_tag == [id |-> "ncx", href |-> "toc.ncx", mediatype |-> "application/x-dtbncx+xml"]

NoNav == _create_nav("", "", "")

----------------------------------------------------------------------------
\* Archive entries.  An entry is [filename, compress_type, data].

ZipInfo(name, ct, data) == [filename |-> name, compress_type |-> ct, data |-> data]

FixedEntries(ct) ==
    << ZipInfo("mimetype", ct, <<"application/epub+zip">>),
       ZipInfo("META-INF/container.xml", ct, <<"_container">>),
       ZipInfo("OEBPS/toc.ncx", ct, <<"_toc_root">>),
       ZipInfo("OEBPS/content.opf", ct, <<"_opf_root">>),
       ZipInfo("OEBPS/nav.xhtml", ct, <<"_nav_root">>) >>

XhtmlEntries(page, docs, ct) ==
    [i \in 1..Len(docs) |->
        ZipInfo("OEBPS/xhtml/" \o str(page) \o "_" \o str(i) \o ".xhtml", ct,
                <<"xhtml", docs[i].title, docs[i].alt, docs[i].src>>)]

ImageEntries(page, ims, ct) ==
    [i \in 1..Len(ims) |->
        ZipInfo("OEBPS/images/" \o str(page) \o "_" \o basename(ims[i]), ct,
                <<"file", ims[i][1], ims[i][2]>>)]

\* GroupEntries with the images written before the pages
GroupEntriesImagesFirst(p, ct) ==
    ImageEntries(p.key, p.images, ct) \o XhtmlEntries(p.key, p.xhtml, ct)

GroupEntries(p, ct) == XhtmlEntries(p.key, p.xhtml, ct) \o ImageEntries(p.key, p.images, ct)

RECURSIVE PagesEntries(_, _)
PagesEntries(ps, ct) ==
    IF ps = <<>> THEN <<>> ELSE GroupEntries(Head(ps), ct) \o PagesEntries(Tail(ps), ct)

\* Everything one write call puts into the archive, in order.
WrittenEntries(ps, ct) == FixedEntries(ct) \o PagesEntries(ps, ct)

\* total_images counting the groups instead of their images
total_images_groups(ps) == Len(ps)

\* total_images of write
total_images(ps) == SumLen(ps)

\* The calls write makes to the progress bar manager.
ProgressCalls(ps) ==
    << <<"set_convert_total", total_images(ps)>>, <<"get_convert_pb", 0>> >>
    \o [k \in 1..SumLen(ps) |-> <<"update", 1>>]

\* mode of zipfile.ZipFile in write
ZipMode(fs, p) == IF p \in DOMAIN fs THEN "a" ELSE "w"

----------------------------------------------------------------------------
\* State after EpubPlugin.__init__

FreshBuilder ==
    /\ _pos = 0
    /\ _pages = <<>>
    /\ _manifest = <<ncx_tag>>
    /\ _spine = <<>>
    /\ _navigation = <<>>

NoCall ==
    /\ title = ""
    /\ images = <<>>
    /\ pos = 0
    /\ nav = NoNav
    /\ xhtml = <<>>

\* No format object.
NoJobs ==
    /\ cls = ""
    /\ phase = "idle"
    /\ unit = 0
    /\ lists = <<>>
    /\ epub_chapters = 0
    /\ submitted = <<>>
    /\ running = <<>>
    /\ converted = <<>>

\* No concurrent write calls.
NoWrites ==
    /\ writers = <<>>
    /\ sink = [total |-> 0, n |-> 0]
    /\ stacked = FALSE

Init ==
    /\ pc = "convert"
    /\ FreshBuilder
    /\ NoCall
    /\ path \in Paths
    /\ files = <<>>
    /\ zip_compression_type \in CompressionTypes
    /\ pbm = <<>>
    /\ nconverts = 1
    /\ nchapters = 0
    /\ nimages = 0
    /\ NoWrites
    /\ NoJobs

\* EPUBFile.convert called again, after the previous job returned or failed:
\* a new EpubPlugin is constructed for the new target path.
Convert(p) ==
    /\ pc \in {"written", "aborted"}
    /\ nconverts < MaxConverts
    /\ pc' = "convert"
    /\ _pos' = 0
    /\ _pages' = <<>>
    /\ _manifest' = <<ncx_tag>>
    /\ _spine' = <<>>
    /\ _navigation' = <<>>
    /\ path' = p
    /\ nconverts' = nconverts + 1
    /\ UNCHANGED <<locals, files, zip_compression_type, pbm, nchapters, nimages>>
    /\ UNCHANGED <<writes, jobs>>

\* create_page, lines 393-400
CreatePage(t, ims) ==
    /\ pc = "convert"
    /\ nchapters < MaxChapters
    /\ nimages + Len(ims) <= MaxImages
    /\ title' = t
    /\ images' = ims
    /\ nav' = _create_nav("TOC_" \o str(_pos) \o "_INIT", t,
                          "xhtml/" \o str(_pos) \o "_1.xhtml")
    /\ xhtml' = <<>>
    /\ pos' = 0
    /\ pc' = "for"
    /\ nchapters' = nchapters + 1
    /\ nimages' = nimages + Len(ims)
    /\ UNCHANGED <<builder, path, files, zip_compression_type, pbm, nconverts>>
    /\ UNCHANGED <<writes, jobs>>

\* next iteration of the loop, lines 402-439
ForNext ==
    /\ pc = "for"
    /\ pos < Len(images)
    /\ pos' = pos + 1
    /\ pc' = "manifest"
    /\ UNCHANGED <<builder, title, images, nav, xhtml, path, files,
                   zip_compression_type, pbm, counters>>
    /\ UNCHANGED <<writes, jobs>>

\* line 441, Image.open succeeds
CreateManifestItem ==
    /\ pc = "manifest"
    /\ _manifest' = _create_manifest_item(_manifest, _pos, pos, images[pos])
    /\ pc' = "spine"
    /\ UNCHANGED <<_pos, _pages, _spine, _navigation, locals, path, files,
                   zip_compression_type, pbm, counters>>
    /\ UNCHANGED <<writes, jobs>>

\* line 441, Image.open raises (line 361): the exception leaves create_page and
\* convert, which has no handler (lines 533-539); the job is over.
ImageOpenFails ==
    /\ pc = "manifest"
    /\ pc' = "aborted"
    /\ title' = ""
    /\ images' = <<>>
    /\ pos' = 0
    /\ nav' = NoNav
    /\ xhtml' = <<>>
    /\ UNCHANGED <<builder, path, files, zip_compression_type, pbm, counters>>
    /\ UNCHANGED <<writes, jobs>>

\* line 442
CreateSpineItem ==
    /\ pc = "spine"
    /\ _spine' = _create_spine_item(_spine, _pos, pos)
    /\ pc' = "toc"
    /\ UNCHANGED <<_pos, _pages, _manifest, _navigation, locals, path, files,
                   zip_compression_type, pbm, counters>>
    /\ UNCHANGED <<writes, jobs>>

\* lines 443-445
CreateTocItem ==
    /\ pc = "toc"
    /\ nav' = _create_toc_item(nav, _pos, pos)
    /\ xhtml' = Append(xhtml, root(title, _pos, images[pos]))
    /\ pc' = "for"
    /\ UNCHANGED <<builder, title, images, pos, path, files,
                   zip_compression_type, pbm, counters>>
    /\ UNCHANGED <<writes, jobs>>

\* lines 447-454 skipped for a group without images
CreatePageReturnSkipsEmpty ==
    /\ pc = "for"
    /\ pos = Len(images)
    /\ _navigation' = IF images = <<>> THEN _navigation ELSE Append(_navigation, nav)
    /\ _pages' = IF images = <<>> THEN _pages
                 ELSE DictSet(_pages, _pos, [xhtml |-> xhtml, images |-> images])
    /\ _pos' = IF images = <<>> THEN _pos ELSE _pos + 1
    /\ pc' = "convert"
    /\ title' = ""
    /\ images' = <<>>
    /\ pos' = 0
    /\ nav' = NoNav
    /\ xhtml' = <<>>
    /\ UNCHANGED <<_manifest, _spine, path, files, zip_compression_type, pbm, counters>>
    /\ UNCHANGED <<writes, jobs>>

\* the loop is over, lines 447-454
CreatePageReturn ==
    /\ pc = "for"
    /\ pos = Len(images)
    /\ _navigation' = Append(_navigation, nav)
    /\ _pages' = DictSet(_pages, _pos, [xhtml |-> xhtml, images |-> images])
    /\ _pos' = _pos + 1
    /\ pc' = "convert"
    /\ title' = ""
    /\ images' = <<>>
    /\ pos' = 0
    /\ nav' = NoNav
    /\ xhtml' = <<>>
    /\ UNCHANGED <<_manifest, _spine, path, files, zip_compression_type, pbm, counters>>
    /\ UNCHANGED <<writes, jobs>>

\* write(path), lines 480-524
Write ==
    /\ pc = "convert"
    /\ pbm' = pbm \o ProgressCalls(_pages)
    /\ LET old == IF ZipMode(files, path) = "a" THEN files[path] ELSE <<>>
           new == old \o WrittenEntries(_pages, zip_compression_type)
       IN files' = [q \in DOMAIN files \cup {path} |-> IF q = path THEN new ELSE files[q]]
    /\ pc' = "written"
    /\ UNCHANGED <<builder, locals, path, zip_compression_type, counters>>
    /\ UNCHANGED <<writes, jobs>>

Next ==
    \/ \E p \in Paths : Convert(p)
    \/ \E t \in Titles, ims \in SeqUpTo(ImagePaths, MaxImages) : CreatePage(t, ims)
    \/ ForNext
    \/ CreateManifestItem
    \/ ImageOpenFails
    \/ CreateSpineItem
    \/ CreateTocItem
    \/ CreatePageReturn
    \/ Write

Spec == Init /\ [][Next]_vars

----------------------------------------------------------------------------
\* write calls of independent builders running at the same time, as jobs of
\* the worker: each has its own builder and target path, all share the
\* progress bar manager.  One step per access to the manager.

MaxWriters == 2     \* write calls running at the same time

Writers == 1..MaxWriters

WriterPath(w) == "w" \o str(w) \o ".epub"

\* _pages after create_page has returned for each of the image lists gs
PagesOf(gs) ==
    [k \in 1..Len(gs) |->
        [key |-> k - 1,
         xhtml |-> [i \in 1..Len(gs[k]) |-> root("Ch. 1", k - 1, gs[k][i])],
         images |-> gs[k]]]

\* The builders the writers may hold.
WriterPages ==
    {PagesOf(gs) : gs \in {x \in SeqUpTo(SeqUpTo({<<"ch1", "01.png">>}, MaxImages), MaxChapters) :
                              SumLen(PagesOf(x)) <= MaxImages}}

\* The progress bar manager: set_convert_total declares the total,
\* get_convert_pb hands out the bar, a new one when asked to recreate it,
\* update adds to the bar's count.
set_convert_total(s, total) == [s EXCEPT !.total = total]
get_convert_pb(s, recreate) == IF recreate THEN [s EXCEPT !.n = 0] ELSE s
update(s, k) == [s EXCEPT !.n = @ + k]

\* zip_obj.writestr / zip_obj.write: entries appended to the archive at path p
ZipWrite(fs, p, entries) ==
    [q \in DOMAIN fs \cup {p} |->
        IF q = p THEN (IF p \in DOMAIN fs THEN fs[p] ELSE <<>>) \o entries ELSE fs[q]]

\* Where the loop of line 513 goes after group number page of frame f.
AfterGroup(f) ==
    IF f.page < Len(f.pages)
    THEN [f EXCEPT !.pc = "xhtml", !.page = @ + 1, !.pos = 0]
    ELSE [f EXCEPT !.pc = "returned"]

InitWrites ==
    /\ pc = "writes"
    /\ FreshBuilder
    /\ NoCall
    /\ path = "a.epub"
    /\ files = <<>>
    /\ zip_compression_type \in CompressionTypes
    /\ pbm = <<>>
    /\ nconverts = 0
    /\ nchapters = 0
    /\ nimages = 0
    /\ writers \in [Writers -> {[pc |-> "write", pages |-> ps, page |-> 0, pos |-> 0] :
                                   ps \in WriterPages}]
    /\ sink = [total |-> 0, n |-> 0]
    /\ stacked \in BOOLEAN
    /\ NoJobs

single == <<pc, builder, locals, path, zip_compression_type, pbm, counters, jobs>>

\* lines 483-488
WriteSetTotal(w) ==
    /\ writers[w].pc = "write"
    /\ sink' = set_convert_total(sink, total_images(writers[w].pages))
    /\ writers' = [writers EXCEPT ![w].pc = "open"]
    /\ UNCHANGED <<single, files, stacked>>

\* lines 489-510
WriteOpen(w) ==
    /\ writers[w].pc = "open"
    /\ sink' = get_convert_pb(sink, ~stacked)
    /\ files' = ZipWrite(files, WriterPath(w), FixedEntries(zip_compression_type))
    /\ writers' = [writers EXCEPT ![w] = AfterGroup(@)]
    /\ UNCHANGED <<single, stacked>>

\* lines 515-516 for one group
WriteXhtml(w) ==
    LET f == writers[w]
        g == f.pages[f.page]
    IN /\ f.pc = "xhtml"
       /\ files' = ZipWrite(files, WriterPath(w),
                            XhtmlEntries(g.key, g.xhtml, zip_compression_type))
       /\ writers' = [writers EXCEPT ![w] =
                         IF g.images = <<>> THEN AfterGroup(f) ELSE [f EXCEPT !.pc = "image"]]
       /\ UNCHANGED <<single, sink, stacked>>

\* lines 518-524 for one image
WriteImage(w) ==
    LET f == writers[w]
        g == f.pages[f.page]
    IN /\ f.pc = "image"
       /\ files' = ZipWrite(files, WriterPath(w),
                            SubSeq(ImageEntries(g.key, g.images, zip_compression_type),
                                   f.pos + 1, f.pos + 1))
       /\ sink' = update(sink, 1)
       /\ writers' = [writers EXCEPT ![w] =
                         IF f.pos + 1 = Len(g.images) THEN AfterGroup(f)
                         ELSE [f EXCEPT !.pos = @ + 1]]
       /\ UNCHANGED <<single, stacked>>

NextWrites ==
    \/ \E w \in Writers : WriteSetTotal(w)
    \/ \E w \in Writers : WriteOpen(w)
    \/ \E w \in Writers : WriteXhtml(w)
    \/ \E w \in Writers : WriteImage(w)

SpecWrites == InitWrites /\ [][NextWrites]_vars

----------------------------------------------------------------------------
\* EpubVolume and EpubSingle: the downloader calls on_prepare, then
\* on_received_images for each chapter, then on_convert (on_finish for
\* EpubSingle), which submits a job to self.worker; the worker runs the jobs
\* while the downloader goes on.

MaxUnits == 2       \* output units (volumes) of one run

Formats == {"EpubVolume", "EpubSingle"}

\* A (chapter, images) pair, the chapter given by its name.
ChapterPairs == {<<t, ims>> : t \in Titles, ims \in {<<>>, <<<<"ch1", "01.png">>>>}}

\* file_path of the u-th unit
FilePath(u) == "Vol. " \o str(u) \o ".epub"

\* The downloader prepares one unit after the other; a single-file download
\* has one unit.
MayPrepare == phase = "idle" /\ unit < (IF cls = "EpubSingle" THEN 1 ELSE MaxUnits)

\* The worker starts the oldest job it was given, one job at a time.
WorkerTakes == running = <<>> /\ submitted # <<>>

RECURSIVE Received(_)
Received(ls) == IF ls = <<>> THEN 0 ELSE Len(Head(ls)) + Received(Tail(ls))

InitJobs ==
    /\ pc = "jobs"
    /\ FreshBuilder
    /\ NoCall
    /\ path = "a.epub"
    /\ files = <<>>
    /\ zip_compression_type = "ZIP_STORED"
    /\ pbm = <<>>
    /\ nconverts = 0
    /\ nchapters = 0
    /\ nimages = 0
    /\ NoWrites
    /\ cls \in Formats
    /\ phase = "idle"
    /\ unit = 0
    /\ lists = <<>>
    /\ epub_chapters = 0
    /\ submitted = <<>>
    /\ running = <<>>
    /\ converted = <<>>

rest == <<pc, builder, locals, path, files, zip_compression_type, pbm, counters, writes>>

\* on_prepare, lines 556-557 and 576-577: the attribute is bound to a new list
on_prepare ==
    /\ MayPrepare
    /\ unit' = unit + 1
    /\ lists' = Append(lists, <<>>)
    /\ epub_chapters' = Len(lists) + 1
    /\ phase' = "receiving"
    /\ UNCHANGED <<rest, cls, submitted, running, converted>>

\* on_received_images, lines 572-573 and 590-591
on_received_images(chapter, ims) ==
    /\ phase = "receiving"
    /\ Received(lists) < MaxChapters
    /\ lists' = [lists EXCEPT ![epub_chapters] = Append(@, <<chapter, ims>>)]
    /\ UNCHANGED <<rest, cls, phase, unit, epub_chapters, submitted, running, converted>>

\* on_convert, lines 559-570, and on_finish, lines 579-588: the job keeps
\* self and file_path; self.epub_chapters is read when the job is called
on_convert ==
    /\ phase = "receiving"
    /\ submitted' = Append(submitted, [file_path |-> FilePath(unit)])
    /\ phase' = "idle"
    /\ UNCHANGED <<rest, cls, unit, lists, epub_chapters, running, converted>>

\* the worker calls the job: lines 564-569 (582-587), then convert, lines 533-534
JobCall ==
    /\ WorkerTakes
    /\ running' = <<[file_path |-> Head(submitted).file_path,
                     chapters |-> epub_chapters, i |-> 0, pages |-> <<>>]>>
    /\ submitted' = Tail(submitted)
    /\ UNCHANGED <<rest, cls, phase, unit, lists, epub_chapters, converted>>

\* convert, lines 536-537: the next pair of the list being iterated
JobCreatePage ==
    /\ running # <<>>
    /\ running[1].i < Len(lists[running[1].chapters])
    /\ running' = <<[running[1] EXCEPT
                        !.i = @ + 1,
                        !.pages = Append(@, lists[running[1].chapters][running[1].i + 1])]>>
    /\ UNCHANGED <<rest, cls, phase, unit, lists, epub_chapters, submitted, converted>>

\* convert, line 539: the iteration is over, the archive is written
JobWrite ==
    /\ running # <<>>
    /\ running[1].i = Len(lists[running[1].chapters])
    /\ converted' = [q \in DOMAIN converted \cup {running[1].file_path} |->
                        IF q = running[1].file_path THEN running[1].pages ELSE converted[q]]
    /\ running' = <<>>
    /\ UNCHANGED <<rest, cls, phase, unit, lists, epub_chapters, submitted>>

NextJobs ==
    \/ on_prepare
    \/ \E c \in ChapterPairs : on_received_images(c[1], c[2])
    \/ on_convert
    \/ JobCall
    \/ JobCreatePage
    \/ JobWrite

SpecJobs == InitJobs /\ [][NextJobs]_vars

----------------------------------------------------------------------------
\* Properties.

\* No create_page call is in progress and none has failed.
Returned == pc \in {"convert", "written"}

\* The record _pages holds under key g.
Group(g) == (CHOOSE k \in 1..Len(_pages) : _pages[k].key = g) 

GroupImages(g) == _pages[Group(g)].images

\* The registered images as (group index, item index) pairs.
Registered == {<<g, i>> \in (0..MaxChapters) \X (1..MaxImages + 1) :
                  /\ \E k \in 1..Len(_pages) : _pages[k].key = g
                  /\ i <= Len(GroupImages(g))}

\* Spine entries of groups g, g+1, ..., n-1, each group's items in item order.
RECURSIVE SpineFrom(_, _)
SpineFrom(g, n) ==
    IF g >= n THEN <<>>
    ELSE [i \in 1..Len(GroupImages(g)) |-> [idref |-> "XHTML_" \o str(g) \o "_" \o str(i)]]
         \o SpineFrom(g + 1, n)

\* C1: once the create_page calls made so far have returned, the spine has one
\* itemref per registered image, and it is the concatenation, in group index
\* order, of XHTML_g_1 .. XHTML_g_m for each group g of m images.
SpineIsConcatenationOfGroups ==
    Returned =>
        /\ Len(_spine) = Cardinality(Registered)
        /\ _spine = SpineFrom(0, _pos)

\* C1 witness: an empty group followed by a group of two images.
SpineAfterEmptyThenTwoImages ==
    /\ pc = "convert"
    /\ Len(_pages) = 2
    /\ _pages[1].images = <<>>
    /\ Len(_pages[2].images) = 2
    /\ Len(_spine) = 2

\* C2: the ids of the manifest items are pairwise different, in every state.
ManifestIdsUnique ==
    \A j, k \in 1..Len(_manifest) : j # k => _manifest[j].id # _manifest[k].id

\* C2 witness: two images of one group with the same file name are in the manifest.
ManifestHasSameNamedImages ==
    \E j, k \in 1..Len(_manifest) :
        /\ j < k
        /\ _manifest[j].href = _manifest[k].href
        /\ _manifest[j].mediatype = "image/png"

Hrefs == {_manifest[k].href : k \in 1..Len(_manifest)}

\* The targets carried by a navPoint and by its children.
Targets(n) ==
    {n.content[k] : k \in 1..Len(n.content)}
    \cup UNION {{n.navPoints[c].content[k] : k \in 1..Len(n.navPoints[c].content)} :
                c \in 1..Len(n.navPoints)}

\* C3: after the create_page calls made so far have returned, every target of a
\* navPoint of the navigation map is the href of an item of the manifest.
NavTargetsAreManifestHrefs ==
    Returned => \A k \in 1..Len(_navigation) : Targets(_navigation[k]) \subseteq Hrefs

\* The ids create_page gives to the manifest items of group g.
IdsOfGroup(g) ==
    UNION {{"XHTML_" \o str(g) \o "_" \o str(i), "IMAGES_" \o str(g) \o "_" \o str(i)} :
           i \in 1..MaxImages + 1}

\* C4: when Image.open has failed inside create_page for group _pos, nothing of
\* that group is left in the builder: no manifest item, no spine entry, no
\* navPoint, no record in _pages, and _pos is still the number of groups.
FailedGroupLeavesNothing ==
    pc = "aborted" =>
        /\ \A k \in 1..Len(_manifest) : _manifest[k].id \notin IdsOfGroup(_pos)
        /\ \A k \in 1..Len(_spine) : _spine[k].idref \notin IdsOfGroup(_pos)
        /\ \A k \in 1..Len(_navigation) : _navigation[k].id # "TOC_" \o str(_pos) \o "_INIT"
        /\ \A k \in 1..Len(_pages) : _pages[k].key # _pos
        /\ _pos = Len(_pages)

\* C5: in every state, between any two statements of create_page and after a
\* failed call as well, each itemref of the spine names the id of a manifest item.
SpineRefsAreManifestIds ==
    \A k \in 1..Len(_spine) : \E j \in 1..Len(_manifest) : _manifest[j].id = _spine[k].idref

\* C5 witness: Image.open failed on the second image of a group.
AbortedAfterFirstImage ==
    /\ pc = "aborted"
    /\ Len(_spine) = 1
    /\ Len(_manifest) = 3

\* The archive at the target path, and the names of its entries.
Archive == files[path]

Count(a, name) == Cardinality({k \in 1..Len(a) : a[k].filename = name})

FixedNames == {"mimetype", "META-INF/container.xml", "OEBPS/toc.ncx",
               "OEBPS/content.opf", "OEBPS/nav.xhtml"}

PageName(g, i) == "OEBPS/xhtml/" \o str(g) \o "_" \o str(i) \o ".xhtml"

\* C6: after write, the first entry of the archive is 'mimetype' and is stored
\* uncompressed, and every other entry has the configured compression.
MimetypeFirstAndStored ==
    pc = "written" =>
        /\ Archive[1].filename = "mimetype"
        /\ Archive[1].compress_type = "ZIP_STORED"
        /\ \A k \in 2..Len(Archive) : Archive[k].compress_type = zip_compression_type

\* C7: after write, the archive holds one entry for each of the five fixed
\* documents, one page entry and one image entry for each registered image, and
\* nothing else.
OneEntryPerDocument ==
    pc = "written" =>
        /\ \A name \in FixedNames : Count(Archive, name) = 1
        /\ \A c \in Registered : Count(Archive, PageName(c[1], c[2])) = 1
        /\ Cardinality({k \in 1..Len(Archive) : Archive[k].data[1] = "file"})
               = Cardinality(Registered)
        /\ Len(Archive) = 5 + 2 * Cardinality(Registered)

\* The entries and the progress calls one step adds.
Added(old, new) == SubSeq(new, Len(old) + 1, Len(new))

ArchiveBefore == IF path \in DOMAIN files THEN files[path] ELSE <<>>

\* File names of the entries of groups g .. n-1: for each group its pages in
\* item order, then its images in item order.
RECURSIVE NamesFrom(_, _)
NamesFrom(g, n) ==
    IF g >= n THEN <<>>
    ELSE [i \in 1..Len(GroupImages(g)) |-> PageName(g, i)]
         \o [i \in 1..Len(GroupImages(g)) |->
                "OEBPS/images/" \o str(g) \o "_" \o GroupImages(g)[i][2]]
         \o NamesFrom(g + 1, n)

IsPage(e) == e.data[1] = "xhtml"

HrefOfId(id) == _manifest[CHOOSE k \in 1..Len(_manifest) : _manifest[k].id = id].href

\* C8: the entries one write call adds are mimetype, container.xml, toc.ncx,
\* content.opf, nav.xhtml and then, group by group in group index order, the
\* group's pages in item order followed by its images in item order; the page
\* entries among them are, in order, the hrefs the spine refers to.
WriteOrder ==
    [][pc' = "written" =>
        LET w == Added(ArchiveBefore, files'[path])
            names == [k \in 1..Len(w) |-> w[k].filename]
            pages == SelectSeq(w, IsPage)
        IN /\ names = << "mimetype", "META-INF/container.xml", "OEBPS/toc.ncx",
                         "OEBPS/content.opf", "OEBPS/nav.xhtml" >> \o NamesFrom(0, _pos)
           /\ [k \in 1..Len(pages) |-> pages[k].filename]
                  = [k \in 1..Len(_spine) |-> "OEBPS/" \o HrefOfId(_spine[k].idref)]
    ]_vars

\* C8 witness: a builder with two groups of one image each has been written.
WrittenTwoGroups ==
    /\ pc = "written"
    /\ Len(_pages) = 2
    /\ Len(_pages[1].images) = 1
    /\ Len(_pages[2].images) = 1

IsUpdate(c) == c[1] = "update"

\* C9: one write call first sets the convert total to the number of registered
\* images and then emits one unit for each image it copies, so the units
\* emitted equal the total when it returns.
ProgressMatchesImages ==
    [][pc' = "written" =>
        LET calls == Added(pbm, pbm')
            copied == SelectSeq(Added(ArchiveBefore, files'[path]), LAMBDA e : e.data[1] = "file")
        IN /\ calls[1] = <<"set_convert_total", Cardinality(Registered)>>
           /\ Len(SelectSeq(calls, IsUpdate)) = Cardinality(Registered)
           /\ Len(SelectSeq(calls, IsUpdate)) = Len(copied)
           /\ \A k \in 1..Len(calls) : IsUpdate(calls[k]) => calls[k][2] = 1
    ]_vars

\* C9 witness: two images in two groups were written, the second write of the run.
WrittenSecondArchive ==
    /\ pc = "written"
    /\ nconverts = 2
    /\ Len(_pages) = 2
    /\ Cardinality(Registered) = 2
    /\ Len(pbm) > 4

\* C10: the navPoint of group g has one child per image of the group; the
\* i-th has id TOC_g_i, label 'Page i' and target xhtml/g_i.xhtml, the href of
\* the manifest item XHTML_g_i of media type application/xhtml+xml.
PageNavPointsMatchManifest ==
    \A k \in 1..Len(_navigation) :
        LET g == k - 1
            n == _navigation[k]
        IN /\ Len(n.navPoints) = Len(GroupImages(g))
           /\ \A i \in 1..Len(n.navPoints) :
                /\ n.navPoints[i].id = "TOC_" \o str(g) \o "_" \o str(i)
                /\ n.navPoints[i].text = "Page " \o str(i)
                /\ n.navPoints[i].content = <<"xhtml/" \o str(g) \o "_" \o str(i) \o ".xhtml">>
                /\ n.navPoints[i].navPoints = <<>>
                /\ \E m \in 1..Len(_manifest) :
                      /\ _manifest[m].id = "XHTML_" \o str(g) \o "_" \o str(i)
                      /\ _manifest[m].href = n.navPoints[i].content[1]
                      /\ _manifest[m].mediatype = "application/xhtml+xml"

\* C10 witness: the second group registered has two images.
SecondGroupHasTwoPages ==
    /\ Len(_navigation) = 2
    /\ Len(_navigation[2].navPoints) = 2

IsPrefix(a, b) == Len(a) <= Len(b) /\ SubSeq(b, 1, Len(a)) = a

\* A create_page call returns in this step.
CallReturns == pc = "for" /\ pc' = "convert"

\* C11: the navigation map has one top-level navPoint per returned create_page
\* call, the k-th (from 0) with id TOC_k_INIT; the navPoint of a group without
\* images has no children and the group has no manifest item and no spine
\* entry.  Each returning call appends one navPoint labelled with its title
\* and takes the next index, with or without images.
NavMapFollowsGroups ==
    /\ [](Returned =>
            /\ Len(_navigation) = Len(_pages)
            /\ _pos = Len(_navigation)
            /\ \A k \in 1..Len(_navigation) :
                /\ _navigation[k].id = "TOC_" \o str(k - 1) \o "_INIT"
                /\ GroupImages(k - 1) = <<>> =>
                      /\ _navigation[k].navPoints = <<>>
                      /\ \A m \in 1..Len(_manifest) : _manifest[m].id \notin IdsOfGroup(k - 1)
                      /\ \A m \in 1..Len(_spine) : _spine[m].idref \notin IdsOfGroup(k - 1))
    /\ [][CallReturns =>
            /\ Len(_navigation') = Len(_navigation) + 1
            /\ IsPrefix(_navigation, _navigation')
            /\ _navigation'[Len(_navigation')].id = "TOC_" \o str(_pos) \o "_INIT"
            /\ _navigation'[Len(_navigation')].text = title
            /\ _pos' = _pos + 1
       ]_vars

\* C11 witness: an empty group named Ch. 2 was registered before a group named Ch. 1.
EmptyGroupThenGroup ==
    /\ pc = "convert"
    /\ Len(_navigation) = 2
    /\ _navigation[1].text = "Ch. 2"
    /\ _navigation[1].navPoints = <<>>
    /\ _navigation[2].text = "Ch. 1"
    /\ Len(_navigation[2].navPoints) = 1

\* Manifest items of groups g .. n-1: for each image in item order its page
\* item and then its image item.
RECURSIVE ManifestIdsFrom(_, _)
ManifestIdsFrom(g, n) ==
    IF g >= n THEN <<>>
    ELSE [j \in 1..2 * Len(GroupImages(g)) |->
             IF j % 2 = 1 THEN "XHTML_" \o str(g) \o "_" \o str((j + 1) \div 2)
             ELSE "IMAGES_" \o str(g) \o "_" \o str(j \div 2)]
         \o ManifestIdsFrom(g + 1, n)

RECURSIVE PageNamesFrom(_, _)
PageNamesFrom(g, n) ==
    IF g >= n THEN <<>>
    ELSE [i \in 1..Len(GroupImages(g)) |-> PageName(g, i)] \o PageNamesFrom(g + 1, n)

\* C12: the keys of _pages are 0, 1, 2, ... in insertion order and the k-th
\* returning call registers its images under key k-1; the ids and hrefs of a
\* group of m images use exactly the item indices 1..m, and so do the page
\* entries write puts into the archive.
IndicesAreDense ==
    /\ [](/\ \A k \in 1..Len(_pages) : _pages[k].key = k - 1
          /\ Returned =>
                /\ [k \in 1..Len(_manifest) |-> _manifest[k].id]
                       = <<"ncx">> \o ManifestIdsFrom(0, Len(_pages))
                /\ \A c \in Registered :
                       HrefOfId("XHTML_" \o str(c[1]) \o "_" \o str(c[2]))
                           = "xhtml/" \o str(c[1]) \o "_" \o str(c[2]) \o ".xhtml")
    /\ [][/\ CallReturns =>
                /\ Len(_pages') = Len(_pages) + 1
                /\ _pages'[Len(_pages')].key = Len(_pages)
                /\ _pages'[Len(_pages')].images = images
          /\ pc' = "written" =>
                LET pages == SelectSeq(Added(ArchiveBefore, files'[path]), IsPage)
                IN [k \in 1..Len(pages) |-> pages[k].filename] = PageNamesFrom(0, Len(_pages))
       ]_vars

\* C12 witness: a second group, of two images, has been written.
WrittenSecondGroupOfTwo ==
    /\ pc = "written"
    /\ Len(_pages) = 2
    /\ _pages[2].key = 1
    /\ Len(_pages[2].images) = 2

\* A new EpubPlugin replaces the builder in this step.
NewBuilder == pc \in {"written", "aborted"} /\ pc' = "convert"

\* C13: no step of create_page changes or removes what is already in the
\* manifest, the spine, the navigation map or _pages: each only grows at its
\* end; and write changes nothing of the builder.
RegisteredContentIsFrozen ==
    [][/\ ~NewBuilder =>
            /\ IsPrefix(_manifest, _manifest')
            /\ IsPrefix(_spine, _spine')
            /\ IsPrefix(_navigation, _navigation')
            /\ IsPrefix(_pages, _pages')
       /\ pc' = "written" => UNCHANGED builder
    ]_vars

\* C13 witness: the first image of the second group is being registered after
\* a first group of one image.
SecondGroupInProgress ==
    /\ pc = "toc"
    /\ _pos = 1
    /\ Len(_pages) = 1
    /\ Len(_manifest) = 5
    /\ Len(_spine) = 2

\* Paths relative to OEBPS/ that an image source may name.
RelativeImageNames ==
    {"images/" \o basename(im) : im \in ImagePaths}
    \cup {"images/" \o str(g) \o "_" \o basename(im) : g \in 0..MaxChapters, im \in ImagePaths}

\* The archive name a source written in a page of OEBPS/xhtml/ resolves to
\* ("" when it resolves to nothing the archive can hold).
Resolve(src) ==
    LET c == {r \in RelativeImageNames : src = "../" \o r}
    IN IF c = {} THEN "" ELSE "OEBPS/" \o (CHOOSE r \in c : TRUE)

\* The archive a and the manifest name the same pages and images, and the
\* image source of every page names the entry holding that page's image.
ArchiveAgreesWithManifest(a) ==
    /\ {a[k].filename : k \in 1..Len(a)} \ FixedNames
           = {"OEBPS/" \o _manifest[k].href : k \in 2..Len(_manifest)}
    /\ \A c \in Registered :
          LET im == GroupImages(c[1])[c[2]]
              name == Resolve(_pages[Group(c[1])].xhtml[c[2]].src)
          IN /\ \E k \in 1..Len(a) : a[k].filename = name
             /\ \A k \in 1..Len(a) :
                   a[k].filename = name => a[k].data = <<"file", im[1], im[2]>>

WritesFreshPath == pc' = "written" /\ path \notin DOMAIN files

\* C16 as stated: after write into a path that did not exist, the page and
\* image entries of the archive are exactly the hrefs of the manifest under
\* OEBPS/, and the image source of page (g, i) names the entry into which
\* image i of group g was copied.
FreshArchiveAgreesWithManifest ==
    [][WritesFreshPath => ArchiveAgreesWithManifest(files'[path])]_vars

\* No two images of one group have the same base file name.
BaseNamesDistinct ==
    \A k \in 1..Len(_pages) :
        \A i, j \in 1..Len(_pages[k].images) :
            i # j => basename(_pages[k].images[i]) # basename(_pages[k].images[j])

\* C16 amended: the same, for builders in which no two images of one group
\* have the same base file name.
FreshArchiveAgreesWhenNamesDistinct ==
    [][WritesFreshPath /\ BaseNamesDistinct => ArchiveAgreesWithManifest(files'[path])]_vars

\* C16 witness: a group of two differently named images was written into a
\* path that did not exist.
WrittenFreshTwoNames ==
    /\ pc = "written"
    /\ Len(_pages) = 1
    /\ Len(_pages[1].images) = 2
    /\ BaseNamesDistinct
    /\ Len(files[path]) = 9

\* The write call of writer w has started and has not returned.
InFlight(w) == writers[w].pc \notin {"write", "returned"}

\* Images of frame f copied so far, one progress unit each.
Copied(f) ==
    IF f.page = 0 THEN 0
    ELSE SumLen(SubSeq(f.pages, 1, f.page - 1))
         + (CASE f.pc = "image" -> f.pos
              [] f.pc = "xhtml" -> 0
              [] OTHER -> Len(f.pages[f.page].images))

RECURSIVE CopiedUpTo(_)
CopiedUpTo(w) == IF w = 0 THEN 0 ELSE Copied(writers[w]) + CopiedUpTo(w - 1)

\* C14: while the write calls of two or more builders are in flight, the
\* count of the shared bar never exceeds the total it declares, and it is the
\* number of units the write calls have emitted.
SharedProgressIsConsistent ==
    Cardinality({w \in Writers : InFlight(w)}) >= 2 =>
        /\ sink.n <= sink.total
        /\ sink.n = CopiedUpTo(MaxWriters)

\* C15: the job submitted for a unit converts exactly the pairs received
\* between the unit's on_prepare and its on_convert (on_finish), in the order
\* received, whenever the worker runs it.
JobConvertsItsUnit ==
    \A u \in 1..unit :
        FilePath(u) \in DOMAIN converted => converted[FilePath(u)] = lists[u]

====
